---- MODULE Spec2Model ----
(***************************************************************************)
(* Model of class KS (src/kuramoto.py): the ETDRK4 integrator of the 1D    *)
(* Kuramoto-Sivashinsky equation, seen as an object whose methods IC,      *)
(* setup_timeseries and simulate are called one after the other.           *)
(*                                                                         *)
(* Abstractions.                                                           *)
(*  - A length-N array is a term: a base vector (random noise, the         *)
(*    Kassam-Trefethen template, a caller's array, zeros) and the list of  *)
(*    the array operations applied to it ("fft", "ifft", "step", "corr",   *)
(*    "c64", "real").  No operation is the identity, two different         *)
(*    histories are two different values.                                  *)
(*  - Times are counted in eighths (dt = 0.25 is 2); t += dt is exact.     *)
(*  - Whether the arithmetic of one step overflows depends on the values   *)
(*    of the arrays, which the terms do not hold: every step may raise     *)
(*    FloatingPointError (np.seterr(over='raise', invalid='raise')) or     *)
(*    not.                                                                 *)
(*  - An omitted argument (None) is the empty set, a given one {x}.        *)
(*  - setup_fourier and setup_etdrk4 only compute the coefficient arrays   *)
(*    read inside step; they are part of the "step" operation of a term.   *)
(***************************************************************************)
EXTENDS Integers, Sequences, FiniteSets, TLC

\* ---------------------------------------------------------------- bounds
MaxSteps == 3      \* nsteps given to the constructor or to simulate: 0..MaxSteps
MaxIout  == 2      \* iout given to the constructor or to simulate: 0..MaxIout
MaxCalls == 2      \* method calls made on one object after its construction

\* N of KS.__init__ (its default); arrays carry their length, so it is not scaled
N == 128

DtSet   == {2}             \* dt, in eighths: the default 0.25
TendSet == {3}             \* tend, in eighths: int(tend/dt) rounds 1.5 down
RandIds == {1, 2}          \* the outcomes of np.random.rand told apart
Lens    == {N - 1, N, N + 1} \* lengths of the arrays a caller passes

VARIABLES
    phase,     \* "ready": the constructor returned; "ctor_raised": it raised
    dt, nsteps, iout, nout,          \* self.dt, self.nsteps, self.iout, self.nout
    u0, v0, v, t, stepnum, ioutnum,  \* self.u0 ... self.ioutnum
    vv, tt,                          \* self.vv (rows), self.tt
    uu,                              \* self.uu: {} while the attribute does not exist
    pc,        \* "idle": no call in progress; "loop": inside simulate's for loop
    n,         \* the loop variable n of simulate (next iteration), 0 outside
    frame,     \* the arguments of the call in progress or last made
    ret,       \* how the last call ended: "None", "-1", an exception name, "pending"
    ncalls     \* calls made since construction

vars == <<phase, dt, nsteps, iout, nout, u0, v0, v, t, stepnum, ioutnum,
          vv, tt, uu, pc, n, frame, ret, ncalls>>

\* ------------------------------------------------------------ array terms
Vec(src, id, len) == [src |-> src, id |-> id, len |-> len, ops |-> <<>>]
Ap(x, op) == [x EXCEPT !.ops = Append(@, op)]

fft(x)  == Ap(x, "fft")
ifft(x) == Ap(x, "ifft")
C64(x)  == Ap(x, "c64")
ZeroRow == C64(Vec("zeros", 0, N))
NoVec   == Vec("unset", 0, 0)

UserVecs == {Vec("usr", 1, l) : l \in Lens}
Opt(S)   == {{}} \cup {{x} : x \in S}
Val(o)   == CHOOSE x \in o : TRUE

Zeros(k, z) == [i \in 1..k |-> z]

\* ndarray.resize to m rows, in place: the first rows are kept, new rows are zero
Resize(s, m, z) == [i \in 1..m |-> IF i <= Len(s) THEN s[i] ELSE z]

\* ------------------------------------------------------- setup_timeseries
\* a time axis without the slot of the initial condition
NewTTNoIC(nout_) == Zeros(nout_, 0)

\* the arrays setup_timeseries allocates for nout_ samples after the IC
NewVV(nout_, v0_) == <<C64(v0_)>> \o Zeros(nout_, ZeroRow)
NewTT(nout_)      == <<0>> \o Zeros(nout_, 0)

\* np.real(ifft(self.vv)), row by row
fou2real(vv_) == [i \in 1..Len(vv_) |-> Ap(Ap(vv_[i], "ifft"), "real")]

\* the call in progress or last made: the method, and of its arguments those
\* that the call's outcome is stated with (given: nsteps or iout was passed)
CtorFrame == [op |-> "__init__", given |-> FALSE, restart |-> FALSE,
              corr |-> FALSE, u0 |-> {}, v0 |-> {}]

\* ------------------------------------------------------------- __init__
Init ==
    \E dt_ \in DtSet, ns \in Opt(0..MaxSteps), tend \in TendSet,
       io \in 0..MaxIout :
      LET nsteps_ == IF ns = {} THEN tend \div dt_ ELSE Val(ns)
          u0_     == Vec("rand", 1, N)  \* the first draw of np.random.rand
      IN  /\ dt = dt_
          /\ nsteps = nsteps_
          /\ iout = io
          /\ pc = "idle" /\ n = 0 /\ ncalls = 0
          /\ frame = CtorFrame
          /\ uu = {}
          /\ IF io = 0
             THEN \* int(nsteps/iout) raises ZeroDivisionError: no object
                  /\ phase = "ctor_raised" /\ ret = "ZeroDivisionError"
                  /\ nout = 0 /\ u0 = NoVec /\ v0 = NoVec /\ v = NoVec
                  /\ t = 0 /\ stepnum = 0 /\ ioutnum = 0
                  /\ vv = <<>> /\ tt = <<>>
             ELSE /\ phase = "ready" /\ ret = "None"
                  /\ nout = nsteps_ \div io
                  /\ u0 = u0_ /\ v0 = fft(u0_) /\ v = fft(u0_)
                  /\ t = 0 /\ stepnum = 0 /\ ioutnum = 0
                  /\ vv = NewVV(nsteps_ \div io, fft(u0_))
                  /\ tt = NewTT(nsteps_ \div io)

CanCall == phase = "ready" /\ pc = "idle" /\ ncalls < MaxCalls

\* ------------------------------------------------------------------- IC
\* a size check that lets a shorter array through
BadSizeOnlyLonger(a_u0, a_v0) ==
    IF a_v0 = {} THEN a_u0 # {} /\ Val(a_u0).len > N ELSE Val(a_v0).len > N

\* lines 112 and 123: np.size(.,0) != self.N of the array IC works from
BadSize(a_u0, a_v0) ==
    IF a_v0 = {} THEN a_u0 # {} /\ Val(a_u0).len # N ELSE Val(a_v0).len # N

IC ==
    \E a_u0 \in Opt(UserVecs), a_v0 \in Opt(UserVecs), testing \in BOOLEAN,
       rid \in RandIds :
      /\ CanCall
      /\ ncalls' = ncalls + 1
      /\ frame' = [CtorFrame EXCEPT !.op = "IC", !.u0 = a_u0, !.v0 = a_v0]
      /\ LET bad == BadSize(a_u0, a_v0)
             nu0 == IF a_v0 # {} THEN ifft(Val(a_v0))
                    ELSE IF a_u0 # {} THEN Val(a_u0)
                    ELSE IF testing THEN Vec("tmpl", 0, N)
                    ELSE Vec("rand", rid, N)
             nv0 == IF a_v0 # {} THEN Val(a_v0) ELSE fft(nu0)
         IN IF bad
            THEN /\ ret' = "-1"
                 /\ UNCHANGED <<u0, v0, v, t, stepnum, ioutnum>>
            ELSE /\ ret' = "None"
                 /\ u0' = nu0 /\ v0' = nv0 /\ v' = nv0
                 /\ t' = 0 /\ stepnum' = 0 /\ ioutnum' = 0
      /\ UNCHANGED <<phase, dt, nsteps, iout, nout, vv, tt, uu, pc, n>>

\* ----------------------------------------------------- setup_timeseries
setup_timeseries ==
    \E a_nout \in Opt(0..MaxSteps) :
      /\ CanCall
      /\ ncalls' = ncalls + 1
      /\ frame' = [CtorFrame EXCEPT !.op = "setup_timeseries"]
      /\ ret' = "None"
      /\ LET nout_ == IF a_nout = {} THEN nout ELSE Val(a_nout)
         IN /\ nout' = nout_
            /\ vv' = NewVV(nout_, v0)
            /\ tt' = NewTT(nout_)
      /\ UNCHANGED <<phase, dt, nsteps, iout, u0, v0, v, t, stepnum, ioutnum,
                     uu, pc, n>>

\* ------------------------------------------------------------- simulate
\* lines 160-175: the arguments are resolved and saved, and with restart the
\* series is sized anew; an empty range(1, nsteps+1) goes straight to fou2real
simulate ==
    \E a_ns \in Opt(0..MaxSteps), a_io \in Opt(0..MaxIout),
       restart \in BOOLEAN, corr \in BOOLEAN :
      LET nsteps_ == IF a_ns = {} THEN nsteps ELSE Val(a_ns)
          iout_   == IF a_io = {} THEN iout ELSE Val(a_io)
      IN  /\ CanCall
          /\ ncalls' = ncalls + 1
          /\ frame' = [CtorFrame EXCEPT !.op = "simulate",
                         !.given = (a_ns # {} \/ a_io # {}),
                         !.restart = restart, !.corr = corr]
          /\ nsteps' = nsteps_
          /\ iout' = iout_
          /\ IF restart /\ iout_ = 0
             THEN \* int(nsteps/iout) raises ZeroDivisionError
                  /\ ret' = "ZeroDivisionError"
                  /\ pc' = "idle" /\ n' = 0
                  /\ UNCHANGED <<nout, vv, tt, uu>>
             ELSE LET nout_ == IF restart THEN nsteps_ \div iout_ ELSE nout
                      vv_   == IF restart THEN NewVV(nout_, v0) ELSE vv
                      tt_   == IF restart THEN NewTT(nout_) ELSE tt
                  IN  /\ nout' = nout_ /\ vv' = vv_ /\ tt' = tt_
                      /\ IF nsteps_ = 0
                         THEN /\ uu' = {fou2real(vv_)}
                              /\ ret' = "None" /\ pc' = "idle" /\ n' = 0
                         ELSE /\ uu' = uu
                              /\ ret' = "pending" /\ pc' = "loop" /\ n' = 1
          /\ UNCHANGED <<phase, dt, u0, v0, v, t, stepnum, ioutnum>>

\* the except branch without its second resize
BlowUpKeepsTT ==
    /\ nout' = ioutnum
    /\ vv' = Resize(vv, ioutnum + 1, ZeroRow)
    /\ tt' = tt
    /\ ret' = "-1" /\ pc' = "idle" /\ n' = 0

\* lines 186-189 and 204-207: the except FloatingPointError branch
BlowUp ==
    /\ nout' = ioutnum
    /\ vv' = Resize(vv, ioutnum + 1, ZeroRow)
    /\ tt' = Resize(tt, ioutnum + 1, 0)
    /\ ret' = "-1" /\ pc' = "idle" /\ n' = 0

\* lines 181/198: self.step() raises before it assigns anything
StepRaises ==
    /\ pc = "loop"
    /\ BlowUp
    /\ UNCHANGED <<phase, dt, nsteps, iout, u0, v0, v, t, stepnum, ioutnum,
                   uu, frame, ncalls>>

\* line 199: self.step() returned and self.v += correction raises
CorrectionRaises ==
    /\ pc = "loop" /\ frame.corr
    /\ v' = Ap(Ap(v, "step"), "corr")
    /\ stepnum' = stepnum + 1
    /\ t' = t + dt
    /\ BlowUp
    /\ UNCHANGED <<phase, dt, nsteps, iout, u0, v0, ioutnum, uu, frame, ncalls>>

\* a stride counted from the first step instead of the iout-th
SampleDueFromFirst(n_, iout_) == iout_ > 0 /\ (n_ - 1) % iout_ = 0

\* lines 190 and 208: is iteration n_ one that records
SampleDue(n_, iout_) == iout_ > 0 /\ n_ % iout_ = 0

\* one iteration of the for loop whose step (and correction) raised nothing:
\* lines 181, 190-193 (198-199, 208-211), and line 213 after the last one
StepDone ==
    LET v1 == IF frame.corr THEN Ap(Ap(v, "step"), "corr") ELSE Ap(v, "step")
        t1 == t + dt
        i1 == ioutnum + 1
    IN  /\ pc = "loop"
        /\ v' = v1
        /\ stepnum' = stepnum + 1
        /\ t' = t1
        /\ IF SampleDue(n, iout)
           THEN /\ ioutnum' = i1
                /\ IF i1 + 1 > Len(vv)
                   THEN \* self.vv[self.ioutnum,:] raises IndexError
                        /\ ret' = "IndexError" /\ pc' = "idle" /\ n' = 0
                        /\ UNCHANGED <<vv, tt, uu>>
                   ELSE /\ vv' = [vv EXCEPT ![i1 + 1] = C64(v1)]
                        /\ tt' = [tt EXCEPT ![i1 + 1] = t1]
                        /\ IF n = nsteps
                           THEN /\ uu' = {fou2real(vv')}
                                /\ ret' = "None" /\ pc' = "idle" /\ n' = 0
                           ELSE /\ uu' = uu /\ ret' = ret /\ pc' = pc
                                /\ n' = n + 1
           ELSE /\ UNCHANGED <<ioutnum, vv, tt>>
                /\ IF n = nsteps
                   THEN /\ uu' = {fou2real(vv)}
                        /\ ret' = "None" /\ pc' = "idle" /\ n' = 0
                   ELSE /\ uu' = uu /\ ret' = ret /\ pc' = pc /\ n' = n + 1
        /\ UNCHANGED <<phase, dt, nsteps, iout, nout, u0, v0, frame, ncalls>>

Next ==
    \/ IC
    \/ setup_timeseries
    \/ simulate
    \/ StepRaises
    \/ CorrectionRaises
    \/ StepDone

Spec == Init /\ [][Next]_vars

\* ------------------------------------------------------------ properties
Ready      == phase = "ready"
Returned   == Ready /\ pc = "idle" /\ frame.op = "simulate"
Completed  == Returned /\ ret = "None"
Diverged   == Returned /\ ret = "-1"
\* the call that just ended was the first one made on the constructed object
FirstCall  == ncalls = 1

\* the state k steps after x, with the correction added after each when corr
RECURSIVE StepsFrom(_, _, _)
StepsFrom(x, k, corr) ==
    IF k = 0 THEN x
    ELSE LET y == Ap(StepsFrom(x, k - 1, corr), "step")
         IN  IF corr THEN Ap(y, "corr") ELSE y

C6_SeriesSizedNoutPlusOne ==
    Ready => (Len(vv) = Len(tt) /\ Len(vv) = nout + 1)

\* a run of 3 steps with iout = 1 that blew up at its second step
C6_Witness ==
    /\ Diverged /\ FirstCall /\ nsteps = 3 /\ iout = 1
    /\ nout = 1 /\ Len(vv) = 2 /\ Len(tt) = 2

\* the array IC works from has the wrong length: v0 when it is given, u0 when
\* v0 is not
WrongLength(f) ==
    \/ f.v0 # {} /\ Val(f.v0).len # N
    \/ f.v0 = {} /\ f.u0 # {} /\ Val(f.u0).len # N

BlowUpStep == pc = "loop" /\ ret' = "-1"

\* C1: when a step of simulate overflows, simulate returns -1 at once with
\* nout = ioutnum and vv, tt shrunk to exactly ioutnum+1 entries, which are the
\* entries 0..ioutnum they held before the failing step: none lost, none added.
C1_BlowUpKeepsRecordedSamples ==
    [][BlowUpStep =>
          /\ pc' = "idle"
          /\ ioutnum' = ioutnum
          /\ nout' = ioutnum
          /\ Len(vv') = ioutnum + 1 /\ Len(tt') = ioutnum + 1
          /\ Len(vv') <= Len(vv) /\ Len(tt') <= Len(tt)
          /\ vv' = SubSeq(vv, 1, ioutnum + 1)
          /\ tt' = SubSeq(tt, 1, ioutnum + 1)]_vars

\* C3: simulate with nsteps = 0 as the first call on a constructed integrator
\* (nsteps = 0 from the constructor or passed, restart or not) leaves v = v0,
\* t = stepnum = ioutnum = 0 and a series of exactly one sample, the initial
\* condition.
C3_ZeroStepsLeavesOnlyInitialSample ==
    (Completed /\ FirstCall /\ nsteps = 0) =>
        /\ v = v0
        /\ t = 0 /\ stepnum = 0 /\ ioutnum = 0
        /\ Len(vv) = 1 /\ Len(tt) = 1
        /\ vv[1] = C64(v0) /\ tt[1] = 0

\* C4 as stated: every run that ends diverged leaves a series strictly shorter
\* than the nout+1 entries the run was sized for, with len(vv) = len(tt).
C4_DivergedSeriesStrictlyShorter ==
    [][BlowUpStep => (Len(vv') < nout + 1 /\ Len(vv') = Len(tt'))]_vars

\* C4 amended: every run that ends diverged leaves len(vv) = len(tt) =
\* ioutnum+1, the samples recorded when the step failed; that is strictly
\* shorter than the nout+1 entries the run was sized for exactly when fewer
\* than nout samples had been recorded, so a blow-up after the last sampling
\* step leaves the length at nout+1.
C4_DivergedSeriesIsRecordedPrefix ==
    [][BlowUpStep =>
          /\ Len(vv') = Len(tt')
          /\ Len(vv') = ioutnum' + 1
          /\ (Len(vv') < nout + 1) <=> (ioutnum' < nout)]_vars

\* nsteps = 3, iout = 2: the only sample is taken after step 2, step 3 blows
\* up, and the series keeps the 2 entries it was sized for
C4_Witness ==
    /\ Diverged /\ FirstCall /\ ~frame.given /\ ~frame.restart
    /\ nsteps = 3 /\ iout = 2 /\ stepnum = 2 /\ ioutnum = 1
    /\ Len(vv) = 2 /\ Len(tt) = 2 /\ nout = 1

\* C5: ioutnum never exceeds nout, whatever the sequence of IC,
\* setup_timeseries and simulate calls.
C5_IoutnumNeverExceedsNout ==
    Ready => ioutnum <= nout

\* C8: iout = 0 is a valid configuration that disables sampling: it is
\* accepted by the constructor and by simulate without an error, and a
\* completed run on it has taken all its steps and recorded nothing.
C8_IoutZeroDisablesSampling ==
    (iout = 0) =>
        /\ Ready
        /\ ret \notin {"ZeroDivisionError", "IndexError"}
        /\ (Completed /\ FirstCall) => (stepnum = nsteps /\ ioutnum = 0)

\* C9: after IC has installed a new initial condition, row 0 of vv is that
\* initial condition (as stored, in complex64) and tt[0] = 0, also after a
\* following simulate without restart; and a simulate with restart starts its
\* loop with ioutnum = 0 and row 0 holding the state the run starts from.
C9_BufferResetWithInitialCondition ==
    /\ (Ready /\ frame.op = "IC" /\ ret = "None") =>
           (vv[1] = C64(v0) /\ tt[1] = 0)
    /\ (Ready /\ frame.op = "simulate" /\ ~frame.restart /\ ret # "pending") =>
           (vv[1] = C64(v0) /\ tt[1] = 0)
    /\ (Ready /\ pc = "loop" /\ n = 1 /\ frame.restart) =>
           (ioutnum = 0 /\ vv[1] = C64(v))

\* C10: after every return of simulate, completed or truncated by a blow-up,
\* the physical series uu exists and has as many rows as vv.
C10_PhysicalSeriesAfterEveryRun ==
    (Completed \/ Diverged) => (uu # {} /\ Len(Val(uu)) = Len(vv))
====
